---- MODULE Spec2Model ----
(***************************************************************************)
(* Model of crates/turbopack-ecmascript/src/path_visitor.rs.               *)
(*                                                                         *)
(* VisitWithPath walks a syntax tree, keeps the stack of spans of the      *)
(* Prop/Expr/Pat/Stmt/ModuleDecl nodes it is inside of, and offers that    *)
(* stack to a CreateVisitorFn at every such node; the answers are          *)
(* collected as (AstPath, VisitorFn) pairs.  ApplyVisitors walks a tree    *)
(* with a HashMap<Span, Vec<(&AstPath, &VisitorFn)>> and a depth index     *)
(* and invokes the visitors at the nodes the paths lead to.                *)
(*                                                                         *)
(* Only Prop/Expr/Pat/Stmt/ModuleDecl nodes are modelled: every other node *)
(* kind is walked by the default traversal of both visitors, so the tree   *)
(* of the model is the tree of those nodes (a child is the nearest         *)
(* descendant of one of the five kinds).  Nodes are numbered in pre-order; *)
(* node 0 is the Module, which is of none of the five kinds.  A Span is    *)
(* compared for equality only, so a span is a number.                      *)
(***************************************************************************)
EXTENDS Integers, Sequences, FiniteSets, TLC

VARIABLES
    parent,     \* parent[n]: the node n is a child of (0: a top-level item)
    span,       \* span[n]: n.span()
    build,      \* "debug" or "release": overflow checks and debug_assert!
    phase,      \* "record", "apply", "done", "panic"
    spans,      \* VisitWithPath.spans
    visitors,   \* VisitWithPath.visitors, the chains (entry i's VisitorFn is i)
    rstack,     \* the recorder's call stack: the check() calls in progress;
                \* a frame's entry is self.spans when the call began
    calls,      \* the create_visitor_fn calls made so far: node, ast_path
                \* and whether the answer was Some
    regs,       \* the (AstPath, VisitorFn) list the applier's pairs refer to
    root,       \* the map handed to ApplyVisitors::new
    stack,      \* the applier's call stack; a frame's mark is the length
                \* of log when the call began
    log,        \* the visitors applied so far: VisitorFn and node, in order
    created,    \* the VisitorFn calls made so far: VisitorFn and node
    content     \* content[n]: the mutations node n has received, in order

vars == <<parent, span, build, phase, spans, visitors, rstack, calls,
          regs, root, stack, log, created, content>>

treeVars == <<parent, span, build>>
recVars == <<spans, visitors, rstack, calls>>
appVars == <<regs, root, stack, log, created, content>>

----------------------------------------------------------------------------
(* Bounds *)

\* Nodes of a tree that is recorded and then applied (Spec).
MaxPipelineNodes == 5

\* Nodes of a tree that is only recorded, or only applied.
MaxNodes == 4

\* Nodes of a tree that is applied under fairness (FairSpecApply).
MaxFairNodes == 3

MaxSpan == 2

MaxChain == 3

MaxRegs == 2

MaxPairs == 2

\* usize::MAX.  The model's integers are narrower than usize; the value
\* only has to differ from every depth index a bounded tree can reach.
UsizeMax == 2147483647

Spans == 1..MaxSpan

Builds == {"debug", "release"}

----------------------------------------------------------------------------
(* The tree *)

Nodes == DOMAIN parent

RECURSIVE AncSelf(_, _)
AncSelf(p, n) == IF n = 0 THEN {} ELSE {n} \cup AncSelf(p, p[n])

\* Forests of k nodes numbered in pre-order.
Forests(k) ==
    { p \in [1..k -> 0..(k - 1)] :
        \A i \in 1..k :
            /\ p[i] < i
            /\ i > 1 => p[i] \in AncSelf(p, i - 1) \cup {0} }

RECURSIVE SortedSeq(_)
SortedSeq(S) ==
    IF S = {} THEN <<>>
    ELSE LET m == CHOOSE x \in S : \A y \in S : x <= y
         IN  <<m>> \o SortedSeq(S \ {m})

\* The Prop/Expr/Pat/Stmt/ModuleDecl nodes a default traversal of the
\* children of p reaches first, in source order.
Children(p) == SortedSeq({ c \in Nodes : parent[c] = p })

\* Root-to-node sequence of nodes, n last.
RECURSIVE PathTo(_)
PathTo(n) == IF n = 0 THEN <<>> ELSE Append(PathTo(parent[n]), n)

\* Root-to-node sequence of spans, n's own last.
ChainOf(n) == [i \in 1..Len(PathTo(n)) |-> span[PathTo(n)[i]]]

Depth(n) == Len(PathTo(n)) - 1

----------------------------------------------------------------------------
(* HashMap<Span, Vec<_>> *)

EmptyMap == [k \in {} |-> <<>>]

\* map.entry(k).or_default().push(v)
Push(m, k, v) ==
    IF k \in DOMAIN m THEN [m EXCEPT ![k] = Append(@, v)]
    ELSE m @@ (k :> <<v>>)

----------------------------------------------------------------------------
(* VisitWithPath *)

RTop == rstack[Len(rstack)]

PopSpanForgotten(s) == s

\* self.spans.pop()
PopSpan(s) == SubSeq(s, 1, Len(s) - 1)

RecordedInFront(list, path) == <<path>> \o list

\* self.visitors.push((self.spans.clone(), v))
Recorded(list, path) == Append(list, path)

\* VisitWithPath::check up to the call of visit_children_with: the span is
\* pushed, the creator is asked, a Some answer is pushed with a clone of
\* the stack.
CheckEnter ==
    /\ phase = "record"
    /\ Len(rstack) > 0
    /\ RTop.pos <= Len(Children(RTop.node))
    /\ LET n == Children(RTop.node)[RTop.pos]
           path == Append(spans, span[n])
       IN  /\ spans' = path
           /\ \E some \in BOOLEAN :
                /\ some => Len(visitors) < MaxRegs
                /\ calls' = Append(calls, [node |-> n, ast_path |-> path,
                                           some |-> some])
                /\ visitors' = IF some THEN Recorded(visitors, path)
                               ELSE visitors
           /\ rstack' = Append([rstack EXCEPT ![Len(rstack)].pos = @ + 1],
                               [node |-> n, pos |-> 1, entry |-> spans])
    /\ UNCHANGED <<treeVars, phase, appVars>>

\* VisitWithPath::check after visit_children_with: the span is popped.
CheckExit ==
    /\ phase = "record"
    /\ Len(rstack) > 1
    /\ RTop.pos > Len(Children(RTop.node))
    /\ spans' = PopSpan(spans)
    /\ rstack' = SubSeq(rstack, 1, Len(rstack) - 1)
    /\ UNCHANGED <<treeVars, phase, visitors, calls, appVars>>

\* VisitWithPath::check when create_visitor_fn panics: the span has been
\* pushed, and the call is left by unwinding from line 113.
CheckPanics ==
    /\ phase = "record"
    /\ Len(rstack) > 0
    /\ RTop.pos <= Len(Children(RTop.node))
    /\ LET n == Children(RTop.node)[RTop.pos]
           path == Append(spans, span[n])
       IN  /\ spans' = path
           /\ calls' = Append(calls, [node |-> n, ast_path |-> path,
                                      some |-> FALSE])
           /\ rstack' = Append([rstack EXCEPT ![Len(rstack)].pos = @ + 1],
                               [node |-> n, pos |-> 1, entry |-> spans])
    /\ phase' = "panic"
    /\ UNCHANGED <<treeVars, visitors, appVars>>

\* The panic unwinds through a call of check: of the panicking call from
\* line 113, of an enclosing call from visit_children_with at line 118.
\* Line 120 is not run, and no destructor pops the span.
Unwind ==
    /\ phase = "panic"
    /\ Len(rstack) > 1
    /\ rstack' = SubSeq(rstack, 1, Len(rstack) - 1)
    /\ UNCHANGED <<treeVars, phase, spans, visitors, calls, appVars>>

----------------------------------------------------------------------------
(* The caller of both passes *)

\* The depth-0 map: the registrations in list order, each under the first
\* span of its path.
RECURSIVE GroupByFirst(_, _)
GroupByFirst(list, i) ==
    IF i = 0 THEN EmptyMap
    ELSE Push(GroupByFirst(list, i - 1), list[i][1], i)

\* ApplyVisitors::new
New(m) ==
    [kind |-> "walk", node |-> 0, visitors |-> m, index |-> 0, pos |-> 1,
     mark |-> 0]

\* The recording is over: the caller groups the registrations and starts
\* the mutating pass over the same tree.
StartApply ==
    /\ phase = "record"
    /\ Len(rstack) = 1
    /\ RTop.pos > Len(Children(0))
    /\ phase' = "apply"
    /\ rstack' = <<>>
    /\ regs' = visitors
    /\ root' = GroupByFirst(visitors, Len(visitors))
    /\ stack' = <<New(GroupByFirst(visitors, Len(visitors)))>>
    /\ UNCHANGED <<treeVars, spans, visitors, calls, log, created, content>>

----------------------------------------------------------------------------
(* ApplyVisitors *)

Top == stack[Len(stack)]

Last(s) == s[Len(s)]

\* child.0.len() - 1 in usize: a panic with overflow checks, a wrap without.
LenMinus1(chain) ==
    IF Len(chain) = 0 THEN UsizeMax ELSE Len(chain) - 1

\* One map for all the pairs of the list being handled.
ChildrenMapShared(chain, i, pair) ==
    LET list == stack[Len(stack)].visitors[span[stack[Len(stack)].node]]
        in(p) == { regs[p][j] : j \in DOMAIN regs[p] }
    IN  [k \in UNION { in(list[j]) : j \in DOMAIN list } |->
            SelectSeq(list, LAMBDA p : k \in in(p))]

\* children_map: the pair, pushed once under every span of its path.
RECURSIVE ChildrenMap(_, _, _)
ChildrenMap(chain, i, pair) ==
    IF i = 0 THEN EmptyMap
    ELSE Push(ChildrenMap(chain, i - 1, pair), chain[i], pair)

AdvanceNot(s) == s

\* The loop over the children of a node, or over the pairs of a list,
\* moves on to the next one.
Advance(s) == [s EXCEPT ![Len(s)].pos = @ + 1]

TerminalAtLen(chain, index) == index = Len(chain)

TerminalAnywhere(chain, index) == TRUE

\* self.index == child.0.len() - 1
Terminal(chain, index) == index = LenMinus1(chain)

LastIsUnchecked(chain, s) == Len(chain) > 0

\* child.0.last() == Some(&span)
LastIs(chain, s) == Len(chain) > 0 /\ Last(chain) = s

AppliedUnlessApplied(l, pair, n) ==
    IF \E i \in DOMAIN l : l[i] = [fn |-> pair, node |-> n] THEN l
    ELSE Append(l, [fn |-> pair, node |-> n])

\* n.visit_mut_with(&mut child.1()): the visitor is created and applied,
\* which the log records.
Applied(l, pair, n) == Append(l, [fn |-> pair, node |-> n])

SkippedInto(s, n) ==
    Append(Advance(s),
           [kind |-> "walk", node |-> n, visitors |-> s[Len(s)].visitors,
            index |-> s[Len(s)].index, pos |-> 1, mark |-> Len(log)])

\* self.visitors.get(&span) is None: visit_if_required returns, and the
\* traversal goes on with the next sibling of n.
Skipped(s, n) == Advance(s)

\* The traversal reaches the next Prop/Expr/Pat/Stmt/ModuleDecl child and
\* calls visit_if_required on it: the lookup of its span in self.visitors.
\* Without an entry the call returns, and the node's children are not
\* visited.
VisitIfRequired ==
    /\ phase = "apply"
    /\ Len(stack) > 0
    /\ Top.kind = "walk"
    /\ Top.pos <= Len(Children(Top.node))
    /\ LET n == Children(Top.node)[Top.pos]
       IN  IF span[n] \in DOMAIN Top.visitors
           THEN stack' = Append(Advance(stack),
                                [kind |-> "visit", node |-> n,
                                 visitors |-> Top.visitors,
                                 index |-> Top.index, pos |-> 1,
                                 mark |-> Len(log)])
           ELSE stack' = Skipped(stack, n)
    /\ UNCHANGED <<treeVars, phase, recVars, regs, root, log, created, content>>

\* One iteration of `for child in children.iter()`.
ForChild ==
    /\ phase = "apply"
    /\ Len(stack) > 0
    /\ Top.kind = "visit"
    /\ Top.pos <= Len(Top.visitors[span[Top.node]])
    /\ LET n == Top.node
           pair == Top.visitors[span[n]][Top.pos]
           chain == regs[pair]
       IN  IF Len(chain) = 0 /\ build = "debug"
           THEN \* attempt to subtract with overflow
                /\ phase' = "panic"
                /\ UNCHANGED <<stack, log, created, content>>
           ELSE IF Terminal(chain, Top.index)
           THEN /\ phase' = phase
                /\ stack' = Advance(stack)
                /\ IF LastIs(chain, span[n])
                   THEN \* n.visit_mut_with(&mut child.1())
                        /\ created' = Append(created, [fn |-> pair, node |-> n])
                        /\ log' = Applied(log, pair, n)
                        /\ content' = [content EXCEPT ![n] = Append(@, pair)]
                   ELSE UNCHANGED <<log, created, content>>
           ELSE IF build = "debug" /\ ~(Top.index < Len(chain))
           THEN \* debug_assert!(self.index < child.0.len())
                /\ phase' = "panic"
                /\ UNCHANGED <<stack, log, created, content>>
           ELSE \* n.visit_mut_children_with(&mut ApplyVisitors { .. })
                /\ phase' = phase
                /\ stack' = Append(Advance(stack),
                                   [kind |-> "walk", node |-> n,
                                    visitors |-> ChildrenMap(chain, Len(chain), pair),
                                    index |-> Top.index + 1, pos |-> 1,
                                    mark |-> Len(log)])
                /\ UNCHANGED <<log, created, content>>
    /\ UNCHANGED <<treeVars, recVars, regs, root>>

\* A loop is over: visit_if_required or visit_mut_children_with returns.
Return ==
    /\ phase = "apply"
    /\ Len(stack) > 0
    /\ IF Top.kind = "walk"
       THEN Top.pos > Len(Children(Top.node))
       ELSE Top.pos > Len(Top.visitors[span[Top.node]])
    /\ stack' = SubSeq(stack, 1, Len(stack) - 1)
    /\ phase' = IF Len(stack) = 1 THEN "done" ELSE phase
    /\ UNCHANGED <<treeVars, recVars, regs, root, log, created, content>>

----------------------------------------------------------------------------
(* Specifications *)

Chains == UNION { [1..k -> Spans] : k \in 0..MaxChain }

InitTree(max) ==
    /\ \E k \in 1..max :
         /\ parent \in Forests(k)
         /\ span \in [1..k -> Spans]
    /\ build \in Builds

\* Record a tree, then apply what was recorded to the same tree.
Init ==
    /\ InitTree(MaxPipelineNodes)
    /\ phase = "record"
    /\ spans = <<>>
    /\ visitors = <<>>
    /\ rstack = <<[node |-> 0, pos |-> 1, entry |-> <<>>]>>
    /\ calls = <<>>
    /\ regs = <<>>
    /\ root = EmptyMap
    /\ stack = <<>>
    /\ log = <<>>
    /\ created = <<>>
    /\ content = [n \in Nodes |-> <<>>]

Next == CheckEnter \/ CheckExit \/ StartApply \/ VisitIfRequired \/ ForChild \/ Return

Spec == Init /\ [][Next]_vars

\* A caller-built map: pairs pushed in some order under keys of the
\* caller's choice.
RECURSIVE CallerMap(_, _)
CallerMap(entries, i) ==
    IF i = 0 THEN EmptyMap
    ELSE Push(CallerMap(entries, i - 1), entries[i].key, entries[i].pair)

\* The registrations are numbered in the order the entries first use them,
\* and each is used: ApplyVisitors never sees a registration that is in no
\* entry.
FirstUse(entries, nr) ==
    /\ \A r \in 1..nr : \E i \in DOMAIN entries : entries[i].pair = r
    /\ \A i \in DOMAIN entries :
         \A r \in 1..(entries[i].pair - 1) :
            \E j \in 1..(i - 1) : entries[j].pair = r

\* A map any caller may have built, and any tree of up to max nodes.
InitApplyOn(max) ==
    /\ InitTree(max)
    /\ phase = "apply"
    /\ spans = <<>>
    /\ visitors = <<>>
    /\ rstack = <<>>
    /\ calls = <<>>
    /\ \E nr \in 1..MaxRegs : regs \in [1..nr -> Chains]
    /\ \E np \in 1..MaxPairs :
         \E entries \in [1..np -> [key : Spans, pair : DOMAIN regs]] :
            /\ FirstUse(entries, Len(regs))
            /\ root = CallerMap(entries, np)
    /\ stack = <<New(root)>>
    /\ log = <<>>
    /\ created = <<>>
    /\ content = [n \in Nodes |-> <<>>]

\* Apply a map any caller may have built to any tree.
InitApply == InitApplyOn(MaxNodes)

NextApply == VisitIfRequired \/ ForChild \/ Return

SpecApply == InitApply /\ [][NextApply]_vars

\* visit_mut_with is one synchronous call: a step that can be taken is
\* taken.
FairSpecApply ==
    InitApplyOn(MaxFairNodes) /\ [][NextApply]_vars /\ WF_vars(NextApply)

\* Record any tree.
InitRecord ==
    /\ InitTree(MaxNodes)
    /\ phase = "record"
    /\ spans = <<>>
    /\ visitors = <<>>
    /\ rstack = <<[node |-> 0, pos |-> 1, entry |-> <<>>]>>
    /\ calls = <<>>
    /\ regs = <<>>
    /\ root = EmptyMap
    /\ stack = <<>>
    /\ log = <<>>
    /\ created = <<>>
    /\ content = [n \in Nodes |-> <<>>]

NextRecord == CheckEnter \/ CheckExit

SpecRecord == InitRecord /\ [][NextRecord]_vars

\* Record any tree with a creator that may panic.
NextUnwind == CheckEnter \/ CheckExit \/ CheckPanics \/ Unwind

SpecUnwind == InitRecord /\ [][NextUnwind]_vars

----------------------------------------------------------------------------
(* What the claims speak of *)

\* The calls of create_visitor_fn that answered Some, in call order.
Accepted == SelectSeq(calls, LAMBDA c : c.some)

\* The node at which registration r was accepted.
Origin(r) == Accepted[r].node

\* The applications of registration r, in order.
LogOf(r) == SelectSeq(log, LAMBDA e : e.fn = r)

\* The applications node n received, in order.
LogAt(n) == SelectSeq(log, LAMBDA e : e.node = n)

AppliedTo(r, n) == \E i \in DOMAIN log : log[i] = [fn |-> r, node |-> n]

\* No two nodes have the same root-to-node chain of spans: a chain names
\* one node.
ChainsIdentify == \A m, n \in Nodes : ChainOf(m) = ChainOf(n) => m = n

\* Every pair of the depth-0 map is under the first span of its path.
KeyedByFirst ==
    \A k \in DOMAIN root : \A i \in DOMAIN root[k] :
        /\ Len(regs[root[k][i]]) > 0
        /\ regs[root[k][i]][1] = k

\* The number of pairs of the depth-0 map that refer to registration r.
RECURSIVE Count(_, _)
Count(list, r) ==
    IF list = <<>> THEN 0
    ELSE (IF list[1] = r THEN 1 ELSE 0) + Count(Tail(list), r)

RECURSIVE Sum(_, _)
Sum(f, S) ==
    IF S = {} THEN 0
    ELSE LET x == CHOOSE y \in S : TRUE IN f[x] + Sum(f, S \ {x})

RootCount(r) == Sum([k \in DOMAIN root |-> Count(root[k], r)], DOMAIN root)

----------------------------------------------------------------------------
(* Claims *)

\* C1: when a tree is recorded, the registrations are grouped in list
\* order under the first span of their chains, and the map is applied to
\* the same tree, every registration's transform is invoked exactly once,
\* on the node at which it was accepted, and on no other node (stated for
\* the trees in which a chain names one node).
C1_RoundTrip ==
    (phase = "done" /\ ChainsIdentify) =>
        \A r \in DOMAIN regs : LogOf(r) = <<[fn |-> r, node |-> Origin(r)]>>

\* C2: with a single registration, whose chain is the root-to-node chain
\* of node N and which is keyed under the chain's first span, the run
\* invokes the transform on N, and no node whose chain is another one is
\* changed.
C2_OnlyTheTarget ==
    (phase = "done" /\ Len(regs) = 1) =>
        /\ AppliedTo(1, Origin(1))
        /\ \A n \in Nodes : ChainOf(n) # regs[1] => content[n] = <<>>

\* C3: a registration's transform-factory is invoked at most once for a
\* node, and only when the transform is applied, whatever spans repeat in
\* the chain (the registration being once in the depth-0 map, under the
\* first span of its chain).
C3_FactoryOncePerNode ==
    (KeyedByFirst /\ \A r \in DOMAIN regs : RootCount(r) <= 1) =>
        /\ created = log
        /\ \A i, j \in DOMAIN created : created[i] = created[j] => i = j

\* C4: whenever a registration's transform is applied to a node, the
\* spans from the root down to the node are the registration's chain,
\* index by index.
C4_ChainEqualsPath ==
    \A i \in DOMAIN log : ChainOf(log[i].node) = regs[log[i].fn]

\* C5: of two nodes with the same span whose chains differ in an ancestor's
\* span, only the one whose chain was registered receives the transform.
C5_OnlyTheRegisteredClone ==
    \A r \in DOMAIN regs : \A m \in Nodes :
        ( /\ span[m] = span[Origin(r)]
          /\ Len(ChainOf(m)) = Len(regs[r])
          /\ \E i \in 1..(Len(regs[r]) - 1) : ChainOf(m)[i] # regs[r][i] )
        => ~AppliedTo(r, m)

\* Two chains agree on a non-empty proper prefix and differ at an index
\* both have.
Diverge(c1, c2) ==
    \E d \in 2..Len(c1) :
        /\ d <= Len(c2)
        /\ c1[d] # c2[d]
        /\ \A i \in 1..(d - 1) : c1[i] = c2[i]

\* C7: two registrations whose chains share a proper prefix and then
\* differ, each the chain of a node, are each applied to their own target
\* and to no node with another chain.
C7_DivergingChains ==
    (phase = "done" /\ Len(regs) = 2 /\ Diverge(regs[1], regs[2])) =>
        \A r \in DOMAIN regs :
            /\ AppliedTo(r, Origin(r))
            /\ \A n \in Nodes : AppliedTo(r, n) => ChainOf(n) = regs[r]

\* The pair the loop of visit_if_required is about to handle.
Pending == Top.visitors[span[Top.node]][Top.pos]

AtPair ==
    /\ phase = "apply"
    /\ Len(stack) > 0
    /\ Top.kind = "visit"
    /\ Top.pos <= Len(Top.visitors[span[Top.node]])

\* Registration r's chain has d as its last index, and another span there
\* than node n's.
EndsElsewhere(r, n, d) == Len(regs[r]) = d + 1 /\ regs[r][d + 1] # span[n]

\* Registration r's chain has d as its last index, and node n's span there.
EndsAt(r, n, d) == Len(regs[r]) = d + 1 /\ regs[r][d + 1] = span[n]

\* C6: a pending pair reached at a node at the depth of its chain's last
\* index, whose last span is not the node's, is skipped: no transform is
\* invoked, nothing fails, no node changes, and the loop goes on.
C6_MismatchSkipped ==
    [][ (AtPair /\ EndsElsewhere(Pending, Top.node, Top.index)) =>
            /\ log' = log
            /\ created' = created
            /\ content' = content
            /\ phase' = "apply"
            /\ stack' = Advance(stack) ]_vars

\* A one-element chain keyed under another span, that of a top-level
\* node, has just been skipped at that node.
C6_Witness ==
    /\ phase = "apply"
    /\ Len(stack) > 0
    /\ Top.kind = "visit"
    /\ Top.index = 0
    /\ Top.pos > 1
    /\ Len(regs[Top.visitors[span[Top.node]][Top.pos - 1]]) = 1
    /\ EndsElsewhere(Top.visitors[span[Top.node]][Top.pos - 1], Top.node, 0)
    /\ log = <<>>

\* The registrations applied to the node of frame f since the call of
\* visit_if_required that f is began.
AppliedHere(f) ==
    LET here == SelectSeq(SubSeq(log, f.mark + 1, Len(log)),
                          LAMBDA e : e.node = f.node)
    IN  [i \in 1..Len(here) |-> here[i].fn]

\* The pairs frame f has handled.
Handled(f) == SubSeq(f.visitors[span[f.node]], 1, f.pos - 1)

\* C8: the transforms a call of visit_if_required invokes on its node are
\* those of the pending pairs whose chain ends at the node, one per pair,
\* duplicates included, in the order of the pending list.
C8_TerminalPairsInOrder ==
    \A k \in DOMAIN stack :
        stack[k].kind = "visit" =>
            AppliedHere(stack[k]) =
                SelectSeq(Handled(stack[k]),
                          LAMBDA r : EndsAt(r, stack[k].node, stack[k].index))

\* A call has handled two pairs of the same registration, both ending at
\* its node, and has applied both.
C8_Witness ==
    /\ phase = "apply"
    /\ Len(stack) > 0
    /\ Top.kind = "visit"
    /\ Top.pos = 3
    /\ Len(Top.visitors[span[Top.node]]) = 2
    /\ Top.visitors[span[Top.node]][1] = Top.visitors[span[Top.node]][2]
    /\ EndsAt(Top.visitors[span[Top.node]][1], Top.node, Top.index)
    /\ Len(LogAt(Top.node)) >= 2

\* The recorder has returned from the last top-level node.
RecordingOver ==
    /\ phase = "record"
    /\ Len(rstack) = 1
    /\ RTop.pos > Len(Children(0))

\* C9: create_visitor_fn is called once for every node, with the spans of
\* the node's ancestors, root first, and then the node's own.
C9_CalledOncePerNode ==
    /\ \A i \in DOMAIN calls : calls[i].ast_path = ChainOf(calls[i].node)
    /\ \A i, j \in DOMAIN calls : calls[i].node = calls[j].node => i = j
    /\ RecordingOver => { calls[i].node : i \in DOMAIN calls } = Nodes

\* A recording is over in which a node below the top level was entered
\* after the recorder had left another node.
C9_Witness ==
    /\ RecordingOver
    /\ \E n \in Nodes :
         /\ n > 1
         /\ Depth(n) >= 1
         /\ Depth(n) <= Depth(n - 1)
         /\ \E i \in DOMAIN calls : calls[i].node = n

Pos(seq, x) == CHOOSE i \in DOMAIN seq : seq[i] = x

\* x comes before y in depth-first pre-order: x is an ancestor of y, or x
\* lies in the subtree of an earlier sibling.
Before(x, y) ==
    /\ x # y
    /\ \/ x \in AncSelf(parent, y)
       \/ /\ y \notin AncSelf(parent, x)
          /\ \E u \in AncSelf(parent, x), v \in AncSelf(parent, y) :
                /\ u # v
                /\ parent[u] = parent[v]
                /\ Pos(Children(parent[u]), u) < Pos(Children(parent[v]), v)

\* The list holds the accepted chains, in pre-order of the accepting nodes.
AcceptedInPreOrder ==
    /\ Len(visitors) = Len(Accepted)
    /\ \A i \in DOMAIN visitors : visitors[i] = ChainOf(Origin(i))
    /\ \A i, j \in DOMAIN visitors : i < j => Before(Origin(i), Origin(j))

\* C10: the registration list holds exactly the accepted chains, in
\* depth-first pre-order of the accepting nodes, and no later step alters
\* a chain the list holds.
C10_PreOrderAndStable ==
    /\ []AcceptedInPreOrder
    /\ [][ \A i \in DOMAIN visitors :
              i \in DOMAIN visitors' /\ visitors'[i] = visitors[i] ]_vars

\* A recording is over that accepted a node and then a node of a later
\* sibling's subtree, both below the top level.
C10_Witness ==
    /\ RecordingOver
    /\ Len(visitors) = 2
    /\ Len(visitors[1]) >= 2
    /\ Origin(1) \notin AncSelf(parent, Origin(2))
    /\ Before(Origin(1), Origin(2))

\* C11: whenever a call of VisitWithPath::check is left, by return or by
\* unwinding, self.spans is what it was when the call began.
C11_SpansRestoredOnExit ==
    [][ (Len(rstack) > 1 /\ Len(rstack') < Len(rstack)) =>
            spans' = RTop.entry ]_vars

\* C12: a pending pair met at a depth index that is no index of its
\* chain (index >= length, an empty chain at depth 0 included) makes the
\* call fail at once.
C12_FailsFastBeyondChain ==
    [][ (AtPair /\ Top.index >= Len(regs[Pending])) => phase' = "panic" ]_vars

\* C13: every run of ApplyVisitors over a finite tree with a finite map
\* finishes: it completes or it fails fast.
C13_ApplyTerminates == <>(phase \in {"done", "panic"})

\* A run has completed after descending below the top level.
C13_Witness ==
    /\ phase = "done"
    /\ \E i \in DOMAIN log : Depth(log[i].node) >= 2

\* The child the traversal of a node's children is about to visit.
NextChild == Children(Top.node)[Top.pos]

\* The traversal is about to visit a child whose span has no entry in
\* the current map.
AtUnmatched ==
    /\ phase = "apply"
    /\ Len(stack) > 0
    /\ Top.kind = "walk"
    /\ Top.pos <= Len(Children(Top.node))
    /\ span[NextChild] \notin DOMAIN Top.visitors

\* C14 as stated: at a node whose span has no entry in the current map no
\* transform is applied, and the traversal goes into the node's children.
C14_UnmatchedDescended ==
    [][ AtUnmatched =>
            /\ log' = log
            /\ Children(NextChild) # <<>> =>
                 /\ Len(stack') = Len(stack) + 1
                 /\ stack'[Len(stack')].kind = "walk"
                 /\ stack'[Len(stack')].node = NextChild ]_vars

\* C14 as amended: at a node whose span has no entry in the current map no
\* transform is applied and nothing changes, and the traversal goes on
\* with the node's next sibling: the node's children are not visited.
C14_UnmatchedPruned ==
    [][ AtUnmatched =>
            /\ log' = log
            /\ created' = created
            /\ content' = content
            /\ phase' = "apply"
            /\ Len(stack') = Len(stack)
            /\ stack'[Len(stack)] = [Top EXCEPT !.pos = @ + 1] ]_vars

\* The traversal has passed a node with no entry that has a child with
\* an entry.
C14_Witness ==
    /\ phase = "apply"
    /\ Len(stack) > 0
    /\ Top.kind = "walk"
    /\ Top.pos > 1
    /\ LET c == Children(Top.node)[Top.pos - 1]
       IN  /\ span[c] \notin DOMAIN Top.visitors
           /\ \E g \in Nodes : parent[g] = c /\ span[g] \in DOMAIN Top.visitors

\* The pending pair's chain goes on below the depth of the current node.
Continuing == AtPair /\ Len(regs[Pending]) > Top.index + 1

\* C15: for a pending pair that is not terminal at a node at depth d, the
\* map built for the descent holds the pair under the span at chain index
\* d+1 only, and the descent visits the node's children with index d+1.
C15_DescentKeyedByNextSpan ==
    [][ Continuing =>
            /\ Len(stack') = Len(stack) + 1
            /\ stack'[Len(stack')].kind = "walk"
            /\ stack'[Len(stack')].node = Top.node
            /\ stack'[Len(stack')].index = Top.index + 1
            /\ stack'[Len(stack')].visitors =
                   (regs[Pending][Top.index + 2] :> <<Pending>>) ]_vars

\* Registrations t and c are the chains of a top-level node and of a node
\* below it, and the depth-0 map holds each once, under its first span.
TerminalAndContinuing(t, c) ==
    /\ t # c
    /\ KeyedByFirst
    /\ RootCount(t) = 1
    /\ RootCount(c) = 1
    /\ \E n, m \in Nodes :
         /\ parent[n] = 0
         /\ m # n
         /\ n \in AncSelf(parent, m)
         /\ regs[t] = ChainOf(n)
         /\ regs[c] = ChainOf(m)

\* C16: when one pending pair ends at a node and another, under the same
\* span, goes on through it to a descendant, each transform is invoked
\* exactly once, on its own node, whatever the order of the two pairs
\* (stated for the trees in which a chain names one node).
C16_TerminalAndContinuing ==
    (phase = "done" /\ ChainsIdentify /\ Len(regs) = 2) =>
        \A t, c \in DOMAIN regs :
            TerminalAndContinuing(t, c) =>
                \A r \in {t, c} :
                    /\ Len(LogOf(r)) = 1
                    /\ ChainOf(LogOf(r)[1].node) = regs[r]

Range(seq) == { seq[i] : i \in DOMAIN seq }

\* C17: whenever a registration's transform is invoked on a node, the
\* node's depth is the chain's length minus one, the node's span is the
\* chain's last, the registration is in the depth-0 map under the span of
\* the node's top-level ancestor, and the span of every ancestor below the
\* top level, and of the node, occurs in the chain.
C17_WhereTransformsLand ==
    \A i \in DOMAIN log :
        LET n == log[i].node
            chain == regs[log[i].fn]
            path == PathTo(n)
        IN  /\ Depth(n) = Len(chain) - 1
            /\ span[n] = chain[Len(chain)]
            /\ span[path[1]] \in DOMAIN root
            /\ log[i].fn \in Range(root[span[path[1]]])
            /\ \A j \in 2..Len(path) : span[path[j]] \in Range(chain)

\* A transform has been invoked at depth 2 on a node whose chain is not
\* the registration's.
C17_Witness ==
    \E i \in DOMAIN log :
        /\ Depth(log[i].node) = 2
        /\ ChainOf(log[i].node) # regs[log[i].fn]

\* C18: when every pair of the depth-0 map has a non-empty chain, every
\* pair of every map of the run has the depth index of its map among the
\* indices of its chain, and the run does not panic.
C18_IndexWithinChain ==
    (\A r \in DOMAIN regs : Len(regs[r]) > 0) =>
        /\ phase # "panic"
        /\ \A k \in DOMAIN stack :
             \A s \in DOMAIN stack[k].visitors :
                \A r \in Range(stack[k].visitors[s]) :
                    stack[k].index <= Len(regs[r]) - 1

\* A descent has reached the last index of its pair's chain, two levels
\* below the top.
C18_Witness ==
    /\ phase = "apply"
    /\ Len(stack) > 0
    /\ Top.kind = "visit"
    /\ Top.index = 2
    /\ \A r \in DOMAIN regs : Len(regs[r]) > 0
    /\ \E r \in Range(Top.visitors[span[Top.node]]) : Len(regs[r]) = 3

FirstPos(list, r) ==
    CHOOSE i \in DOMAIN list :
        list[i] = r /\ \A j \in 1..(i - 1) : list[j] # r

LastPos(list, r) ==
    CHOOSE i \in DOMAIN list :
        list[i] = r /\ \A j \in (i + 1)..Len(list) : list[j] # r

\* The invocations made since the call of frame f began follow the order
\* of f's list: none caused by an earlier pair comes after one caused by a
\* later pair.
InListOrder(f) ==
    LET list == f.visitors[span[f.node]]
    IN  \A i, j \in (f.mark + 1)..Len(log) :
            i < j =>
                /\ log[i].fn \in Range(list)
                /\ log[j].fn \in Range(list)
                /\ FirstPos(list, log[i].fn) <= LastPos(list, log[j].fn)

\* The traversal of a node's children that frame k is was started for one
\* pair of the frame below, a continuing one, and its map holds that pair
\* and no other.
OwnDescent(k) ==
    LET below == stack[k - 1]
        pair == below.visitors[span[below.node]][below.pos - 1]
    IN  /\ below.kind = "visit"
        /\ below.node = stack[k].node
        /\ stack[k].index = below.index + 1
        /\ Len(regs[pair]) # below.index + 1
        /\ \A s \in DOMAIN stack[k].visitors :
             Range(stack[k].visitors[s]) = {pair}

\* C19: every continuing pair has a map and a traversal of the node's
\* children of its own, and of two pairs pending under the same span at
\* the same node every invocation caused by the earlier one precedes
\* every invocation caused by the later one.
C19_OneDescentPerPair ==
    \A k \in DOMAIN stack :
        /\ stack[k].kind = "visit" => InListOrder(stack[k])
        /\ (stack[k].kind = "walk" /\ k > 1) => OwnDescent(k)

\* Two registrations under the same span have both been handled at a
\* node; the earlier one's target comes after the later one's in the
\* tree, and was mutated first.
C19_Witness ==
    /\ phase = "apply"
    /\ Len(stack) > 0
    /\ Top.kind = "visit"
    /\ Top.pos = 3
    /\ Top.visitors[span[Top.node]] = <<1, 2>>
    /\ Len(log) = 2
    /\ log[1].fn = 1
    /\ log[2].fn = 2
    /\ log[1].node > log[2].node

====
